---- MODULE Spec2Model ----
(***************************************************************************)
(* Event-driven backtester: the FillEvent commission model (event.py), the *)
(* historic CSV bar provider (data.py) and the driver loop around them.    *)
(*                                                                         *)
(* Money is counted in 1/10000 of a dollar, so that the rates 0.0013 and   *)
(* 0.0008 and the floor 1.3 are the integers 13, 8 and 13000.              *)
(***************************************************************************)
EXTENDS Integers, Sequences, FiniteSets, TLC

VARIABLES
    \* ---- FillEvent (event.py)
    arg_quantity,        \* quantity passed to FillEvent(...)
    arg_commission,      \* commission passed to FillEvent(...): Some(c) or NoneValue
    fill,                \* the FillEvent built from the arguments, or NoFill
    fill_next,           \* a second FillEvent, built for quantity + 1, or NoFill
    explicit_calls,      \* calls of fill.calculate_commission() made after construction
    ret,                 \* what the last such call returned
    \* ---- HistoricCSVDataHandler (data.py)
    fs,                  \* csv_dir: file name |-> datetimes of its rows, in file order
    symbol_global,       \* binding of the free name `symbol` of data.py (line 102)
    symbol_list,         \* constructor argument
    handler,             \* "none" | "ok" | the exception the constructor raised
    symbol_data,         \* self.symbol_data
    latest_symbol_data,  \* self.latest_symbol_data
    comb_index,          \* comb_index of _open_convert_csv_files
    continue_backtest,   \* self.continue_backtest
    events,              \* the shared event queue
    calls,               \* number of update_bars() calls made so far
    \* ---- Backtest driver
    state,               \* INITIALIZING | RUNNING | DRAINING | TERMINATED
    pc,                  \* position inside RUNNING: "update" | "drain"
    handled              \* events dispatched since the last update_bars(), by type

fill_vars == <<arg_quantity, arg_commission, fill, fill_next, explicit_calls, ret>>
data_vars == <<fs, symbol_global, symbol_list, handler, symbol_data,
               latest_symbol_data, comb_index, continue_backtest, events, calls>>
driver_vars == <<state, pc, handled>>
vars == <<fill_vars, data_vars, driver_vars>>

\* ------------------------------------------------------------------ bounds
MaxQuantity == 5000
MaxNegQuantity == 3
MaxExplicitCalls == 2
MaxT == 3
MaxExtraCalls == 2
MaxEmit == 1

\* ------------------------------------------------------------- Python values
NoneValue == [some |-> FALSE, v |-> 0]
Some(x) == [some |-> TRUE, v |-> x]
Max(a, b) == IF a >= b THEN a ELSE b
Min(a, b) == IF a <= b THEN a ELSE b

(***************************************************************************)
(*                         event.py : FillEvent                            *)
(***************************************************************************)
Quantities == (0 - MaxNegQuantity)..MaxQuantity
Commissions == {0, 6500, 13000, 20000}
NoFill == [type |-> "NONE", quantity |-> 0, commission |-> 0, calc_calls |-> 0]

\* faulty variants of calculate_commission: the rates of the two tiers
\* swapped; no floor in the discount tier
calculate_commission_swapped(quantity) ==
    IF quantity <= 500 THEN Max(13000, 8 * quantity) ELSE Max(13000, 13 * quantity)

calculate_commission_nofloor(quantity) ==
    IF quantity <= 500 THEN Max(13000, 13 * quantity) ELSE 8 * quantity

\* full_cost = max(1.3, 0.0013 * q) if q <= 500 else max(1.3, 0.0008 * q)
calculate_commission(quantity) ==
    IF quantity <= 500 THEN Max(13000, 13 * quantity) ELSE Max(13000, 8 * quantity)

\* faulty variant of the constructor: `if not commission` instead of `is None`
FillEvent_truthy(quantity, commission) ==
    [type |-> "FILL", quantity |-> quantity,
     commission |-> IF (~commission.some) \/ commission.v = 0
                    THEN calculate_commission(quantity) ELSE commission.v,
     calc_calls |-> IF (~commission.some) \/ commission.v = 0 THEN 1 ELSE 0]

\* FillEvent.__init__: the commission is computed iff none was supplied.
\* calc_calls counts the invocations of calculate_commission on the object.
FillEvent(quantity, commission) ==
    [type |-> "FILL", quantity |-> quantity,
     commission |-> IF ~commission.some
                    THEN calculate_commission(quantity) ELSE commission.v,
     calc_calls |-> IF ~commission.some THEN 1 ELSE 0]

InitFill ==
    /\ arg_quantity \in Quantities
    /\ arg_commission \in {NoneValue} \cup {Some(c) : c \in Commissions}
    /\ fill = NoFill
    /\ fill_next = NoFill
    /\ explicit_calls = 0
    /\ ret = NoneValue

\* fill = FillEvent(..., quantity, ..., commission)
NewFill ==
    /\ fill = NoFill
    /\ fill' = FillEvent(arg_quantity, arg_commission)
    /\ UNCHANGED <<arg_quantity, arg_commission, fill_next, explicit_calls, ret>>
    /\ UNCHANGED <<data_vars, driver_vars>>

\* a second event for the next larger quantity
NewFillNext ==
    /\ fill # NoFill
    /\ fill_next = NoFill
    /\ fill_next' = FillEvent(arg_quantity + 1, arg_commission)
    /\ UNCHANGED <<arg_quantity, arg_commission, fill, explicit_calls, ret>>
    /\ UNCHANGED <<data_vars, driver_vars>>

\* fill.calculate_commission() called by a client: returns, assigns nothing
CallCalculateCommission ==
    /\ fill # NoFill
    /\ explicit_calls < MaxExplicitCalls
    /\ ret' = Some(calculate_commission(fill.quantity))
    /\ fill' = [fill EXCEPT !.calc_calls = @ + 1]
    /\ explicit_calls' = explicit_calls + 1
    /\ UNCHANGED <<arg_quantity, arg_commission, fill_next>>
    /\ UNCHANGED <<data_vars, driver_vars>>

(***************************************************************************)
(*                    data.py : HistoricCSVDataHandler                     *)
(*                                                                         *)
(* A bar is [datetime, close]; the other columns travel with close.  The   *)
(* name `symbol` used at line 102 is bound nowhere in data.py: Unbound is  *)
(* what the module alone gives, a name of SymbolNames what it gives when   *)
(* the name is bound from outside the module.  DataFrame.sort() is the     *)
(* index sort of the pandas releases the module was written for.           *)
(***************************************************************************)
SymbolNames == {"A", "B"}
Timestamps == 1..MaxT
Unbound == "Unbound"
NoIndex == [some |-> FALSE, v |-> <<>>]
\* the value pandas puts in a row it cannot fill
NaN == 0

FileId(name) == IF name = "A" THEN 1 ELSE 2
\* the bar of file `name` at datetime t: its values tell the file and the row
Bar(name, t) == [datetime |-> t, close |-> 100 * FileId(name) + t]

Range(f) == {f[i] : i \in DOMAIN f}
\* the rows of a CSV file, in any order, each datetime once, at least one row
RowOrders ==
    UNION {{f \in [1..n -> Timestamps] : \A i, j \in 1..n : i # j => f[i] # f[j]}
           : n \in 1..MaxT}
FileSystems == UNION {[P -> RowOrders] : P \in SUBSET SymbolNames}
SymbolLists ==
    {<<>>} \cup {<<a>> : a \in SymbolNames}
           \cup {p \in SymbolNames \X SymbolNames : p[1] # p[2]}

\* pd.read_csv(path, index_col=0, ...): the rows of the file, in file order
read_csv(files, fname) ==
    [i \in 1..Len(files[fname]) |-> Bar(fname, files[fname][i])]

\* DataFrame.sort(): rows by ascending index label
sort(df) ==
    [i \in 1..Len(df) |->
        CHOOSE r \in Range(df) :
            Cardinality({x \in Range(df) : x.datetime < r.datetime}) = i - 1]

\* DataFrame.index
Index(df) == [i \in 1..Len(df) |-> df[i].datetime]

\* Index.union(other): a NEW index, the sorted union; neither operand changes
IndexUnion(a, b) ==
    LET S == Range(a) \cup Range(b)
    IN  [i \in 1..Cardinality(S) |->
            CHOOSE t \in S : Cardinality({u \in S : u < t}) = i - 1]

\* DataFrame.reindex(index=index, method='pad'): one row per label of index,
\* holding the values of the last row of df at or before the label, NaN if none
reindex(df, index) ==
    [i \in 1..Len(index) |->
        LET t == index[i]
            prior == {j \in 1..Len(df) : df[j].datetime <= t}
        IN  IF prior = {}
            THEN [datetime |-> t, close |-> NaN]
            ELSE LET j == CHOOSE j \in prior :
                              \A k \in prior : df[k].datetime <= df[j].datetime
                 IN  [datetime |-> t, close |-> df[j].close]]

\* faulty variant of iterrows: the generator starts past the first row
iterrows_skipfirst(df) == [rows |-> df, pos |-> 1]

\* DataFrame.iterrows(): a generator over the rows, pos rows consumed so far
iterrows(df) == [rows |-> df, pos |-> 0]

\* faulty variant of the initial revealed history: a placeholder bar instead of []
EmptyHistory_placeholder == <<[datetime |-> 0, close |-> NaN]>>

\* self.latest_symbol_data[s] = []
EmptyHistory == <<>>

\* faulty variant of the initial continuation flag
InitialContinueBacktest_false == FALSE

\* self.continue_backtest = True
InitialContinueBacktest == TRUE

\* First loop of _open_convert_csv_files, from symbol i of list on.
\* st = the object's fields and comb_index so far; st.exc names the exception
\* that ended the loop.  The path is built from the free name `symbol`, not
\* from the loop variable s: evaluating it raises NameError when the name is
\* unbound, and otherwise every symbol is read from the file of that one
\* name (IOError from read_csv when it does not exist).  The result of
\* comb_index.union(...) is dropped: comb_index stays the first table's index.
RECURSIVE LoadLoop(_, _, _, _, _)
LoadLoop(files, symbol, list, i, st) ==
    IF i > Len(list) THEN st
    ELSE IF symbol = Unbound THEN [st EXCEPT !.exc = "NameError"]
    ELSE IF symbol \notin DOMAIN files THEN [st EXCEPT !.exc = "IOError"]
    ELSE LET s == list[i]
             df == sort(read_csv(files, symbol))
             ci == IF ~st.comb_index.some
                   THEN Some(Index(df))
                   ELSE LET dropped == IndexUnion(st.comb_index.v, Index(df))
                        IN  st.comb_index
         IN  LoadLoop(files, symbol, list, i + 1,
                      [symbol_data |-> (s :> df) @@ st.symbol_data,
                       latest_symbol_data |->
                           (s :> EmptyHistory) @@ st.latest_symbol_data,
                       comb_index |-> ci,
                       exc |-> "ok"])

\* Second loop: every table reindexed onto comb_index and turned into a generator
RECURSIVE ReindexLoop(_, _, _, _)
ReindexLoop(list, i, sd, ci) ==
    IF i > Len(list) THEN sd
    ELSE ReindexLoop(list, i + 1,
                     (list[i] :> iterrows(reindex(sd[list[i]], ci.v))) @@ sd, ci)

\* _open_convert_csv_files(): the fields after both loops, or at the raise
OpenConvertCsvFiles(files, symbol, list) ==
    LET st == LoadLoop(files, symbol, list, 1,
                       [symbol_data |-> <<>>, latest_symbol_data |-> <<>>,
                        comb_index |-> NoIndex, exc |-> "ok"])
    IN  IF st.exc = "ok"
        THEN [st EXCEPT !.symbol_data = ReindexLoop(list, 1, st.symbol_data, st.comb_index)]
        ELSE st

\* HistoricCSVDataHandler(events, csv_dir, symbol_list)
HistoricCSVDataHandler ==
    /\ handler = "none"
    /\ LET st == OpenConvertCsvFiles(fs, symbol_global, symbol_list)
       IN  /\ handler' = st.exc
           /\ symbol_data' = st.symbol_data
           /\ latest_symbol_data' = st.latest_symbol_data
           /\ comb_index' = st.comb_index
    /\ continue_backtest' = InitialContinueBacktest
    /\ UNCHANGED <<fs, symbol_global, symbol_list, events, calls>>

(***************************************************************************)
(*  The provider's stepping primitive and queries.  data.py declares them  *)
(*  (abstract, lines 23-67) and HistoricCSVDataHandler does not override   *)
(*  them: their behaviour here follows the written contract of the Bar     *)
(*  Data Provider.                                                         *)
(***************************************************************************)
\* MarketEvent(): the tag alone
MarketEvent == [type |-> "MARKET"]

\* every generator has yielded all its rows
Exhausted(sd) == \A s \in DOMAIN sd : sd[s].pos >= Len(sd[s].rows)

\* update_bars(): one more bar of every symbol revealed and one MarketEvent
\* queued; the flag goes false with the last bar; a call after that does nothing
update_bars ==
    /\ handler = "ok"
    /\ calls' = calls + 1
    /\ IF Exhausted(symbol_data)
       THEN /\ continue_backtest' = FALSE
            /\ UNCHANGED <<symbol_data, latest_symbol_data, events>>
       ELSE /\ symbol_data' =
                  [s \in DOMAIN symbol_data |-> [symbol_data[s] EXCEPT !.pos = @ + 1]]
            /\ latest_symbol_data' =
                  [s \in DOMAIN latest_symbol_data |->
                      Append(latest_symbol_data[s],
                             symbol_data[s].rows[symbol_data[s].pos + 1])]
            /\ events' = Append(events, MarketEvent)
            /\ continue_backtest' = (continue_backtest /\ ~Exhausted(symbol_data'))
    /\ UNCHANGED <<fs, symbol_global, symbol_list, handler, comb_index>>

\* get_latest_bars(symbol, N): the last N revealed bars, oldest first, fewer
\* when fewer were revealed; NoDataError when none was
get_latest_bars(latest, symbol, N) ==
    IF symbol \notin DOMAIN latest \/ latest[symbol] = <<>>
    THEN [raised |-> "NoDataError", bars |-> <<>>]
    ELSE [raised |-> "no",
          bars |-> SubSeq(latest[symbol],
                          Max(1, Len(latest[symbol]) - N + 1), Len(latest[symbol]))]

\* get_latest_bar_datetime(symbol) = get_latest_bar(symbol).datetime
get_latest_bar_datetime(latest, symbol) ==
    IF symbol \notin DOMAIN latest \/ latest[symbol] = <<>>
    THEN [raised |-> "NoDataError", v |-> 0]
    ELSE [raised |-> "no", v |-> latest[symbol][Len(latest[symbol])].datetime]

\* ---- a client of the provider: constructs it and steps it
NewDataHandler ==
    /\ HistoricCSVDataHandler
    /\ UNCHANGED fill_vars
    /\ UNCHANGED driver_vars

CallUpdateBars ==
    /\ calls < (IF comb_index.some THEN Len(comb_index.v) ELSE 0) + MaxExtraCalls
    /\ update_bars
    /\ UNCHANGED fill_vars
    /\ UNCHANGED driver_vars

(***************************************************************************)
(*  The backtest driver and its collaborators (backtest.py, strategy.py,   *)
(*  portfolio.py, execution.py are imported by goodanalyst.py and are not  *)
(*  part of the sources): modelled from their written contract.            *)
(***************************************************************************)
EventTypes == {"MARKET", "SIGNAL", "ORDER", "FILL"}
NothingHandled == [t \in EventTypes \cup {"EMITTED"} |-> 0]

\* faulty variant of the drain loop's exit test: leave after the first dispatch
DrainFinished_early(q) == TRUE

\* the drain loop ends when the queue is empty
DrainFinished(q) == q = <<>>

\* INITIALIZING: construct the provider; a constructor error aborts the run
Initialize ==
    /\ state = "INITIALIZING"
    /\ HistoricCSVDataHandler
    /\ state' = IF handler' = "ok" THEN "RUNNING" ELSE "TERMINATED"
    /\ UNCHANGED <<pc, handled>>
    /\ UNCHANGED fill_vars

\* RUNNING, top of the loop: update_bars(); flag false -> DRAINING
RunUpdateBars ==
    /\ state = "RUNNING"
    /\ pc = "update"
    /\ update_bars
    /\ handled' = [NothingHandled EXCEPT !["EMITTED"] = Len(events') - Len(events)]
    /\ IF continue_backtest'
       THEN state' = state /\ pc' = "drain"
       ELSE state' = "DRAINING" /\ pc' = pc
    /\ UNCHANGED fill_vars

\* one event dequeued and routed by its tag; the consumer queues k reactions
React(tag, reaction, ks) ==
    /\ state = "RUNNING"
    /\ pc = "drain"
    /\ events # <<>>
    /\ Head(events).type = tag
    /\ \E k \in ks :
          /\ events' = Tail(events) \o [i \in 1..k |-> [type |-> reaction]]
          /\ handled' = [handled EXCEPT ![tag] = @ + 1, !["EMITTED"] = @ + k]
    /\ UNCHANGED <<state, pc>>
    /\ UNCHANGED <<fs, symbol_global, symbol_list, handler, symbol_data,
                   latest_symbol_data, comb_index, continue_backtest, calls>>
    /\ UNCHANGED fill_vars

\* Strategy: a MarketEvent may yield SignalEvents
DispatchMarket == React("MARKET", "SIGNAL", 0..MaxEmit)
\* Portfolio: a SignalEvent yields zero or more OrderEvents
DispatchSignal == React("SIGNAL", "ORDER", 0..MaxEmit)
\* Execution handler: an OrderEvent yields exactly one FillEvent
DispatchOrder == React("ORDER", "FILL", {1})
\* Portfolio: a FillEvent updates the holdings and yields nothing
DispatchFill == React("FILL", "FILL", {0})

\* the queue is drained: back to the top of the loop
DrainDone ==
    /\ state = "RUNNING"
    /\ pc = "drain"
    /\ DrainFinished(events)
    /\ pc' = "update"
    /\ UNCHANGED <<state, handled>>
    /\ UNCHANGED data_vars
    /\ UNCHANGED fill_vars

\* DRAINING: final valuation, then TERMINATED
Finish ==
    /\ state = "DRAINING"
    /\ state' = "TERMINATED"
    /\ UNCHANGED <<pc, handled>>
    /\ UNCHANGED data_vars
    /\ UNCHANGED fill_vars

(***************************************************************************)
(*                            Specifications                               *)
(***************************************************************************)
FillIdle ==
    /\ arg_quantity = 0
    /\ arg_commission = NoneValue
    /\ fill = NoFill
    /\ fill_next = NoFill
    /\ explicit_calls = 0
    /\ ret = NoneValue

NoProvider ==
    /\ handler = "none"
    /\ symbol_data = <<>>
    /\ latest_symbol_data = <<>>
    /\ comb_index = NoIndex
    /\ continue_backtest = FALSE
    /\ events = <<>>
    /\ calls = 0

DriverStart ==
    /\ state = "INITIALIZING"
    /\ pc = "update"
    /\ handled = NothingHandled

\* the provider and a client of it
Init ==
    /\ fs \in FileSystems
    /\ symbol_global \in SymbolNames \cup {Unbound}
    /\ symbol_list \in SymbolLists
    /\ NoProvider
    /\ DriverStart
    /\ FillIdle

Next ==
    \/ NewDataHandler
    \/ CallUpdateBars

Spec == Init /\ [][Next]_vars

\* the provider under the backtest driver
NextBacktest ==
    \/ Initialize
    \/ RunUpdateBars
    \/ DispatchMarket
    \/ DispatchSignal
    \/ DispatchOrder
    \/ DispatchFill
    \/ DrainDone
    \/ Finish

\* the driver is started on files whose rows are already in ascending order
InitBacktest ==
    /\ Init
    /\ \A f \in DOMAIN fs : \A i \in 1..(Len(fs[f]) - 1) : fs[f][i] < fs[f][i + 1]

SpecBacktest == InitBacktest /\ [][NextBacktest]_vars

\* FillEvent alone
InitFillEvent ==
    /\ InitFill
    /\ fs = <<>>
    /\ symbol_global = Unbound
    /\ symbol_list = <<>>
    /\ NoProvider
    /\ DriverStart

NextFillEvent ==
    \/ NewFill
    \/ NewFillNext
    \/ CallCalculateCommission

SpecFill == InitFillEvent /\ [][NextFillEvent]_vars

(***************************************************************************)
(*                               Properties                                *)
(***************************************************************************)
QueryNs == 1..(MaxT + 1)
Tracked == Range(symbol_list)
AllFilesPresent == \A s \in Tracked : s \in DOMAIN fs
SortedSeq(S) ==
    [i \in 1..Cardinality(S) |-> CHOOSE t \in S : Cardinality({u \in S : u < t}) = i - 1]
\* the sorted union of the native datetime indexes of the tracked symbols
NativeUnion == SortedSeq(UNION {Range(fs[s]) : s \in Tracked})
\* the datetimes at or before t at which s has a bar of its own
OwnPrior(s, t) == {u \in Range(fs[s]) : u <= t}
OwnLast(s, t) == CHOOSE u \in OwnPrior(s, t) : \A w \in OwnPrior(s, t) : w <= u
Revealed == IF comb_index.some THEN Min(calls, Len(comb_index.v)) ELSE 0

\* C1: whenever the driver is about to call update_bars(), the event queue is
\* empty and every event queued since the previous update_bars() (the
\* MarketEvent and all reactions to it) has been dequeued and dispatched.
C1_DrainedBeforeUpdate ==
    (state = "RUNNING" /\ pc = "update") =>
        /\ events = <<>>
        /\ handled["MARKET"] + handled["SIGNAL"] + handled["ORDER"] + handled["FILL"]
               = handled["EMITTED"]

\* a full Market -> Signal -> Order -> Fill cascade was dispatched and the
\* driver is back at update_bars()
C1_Witness ==
    /\ state = "RUNNING"
    /\ pc = "update"
    /\ calls >= 1
    /\ events = <<>>
    /\ \A t \in EventTypes : handled[t] = 1
    /\ handled["EMITTED"] = 4

C3_CombinedIndexIsUnion ==
    (handler = "ok" /\ symbol_list # <<>> /\ AllFilesPresent) =>
        comb_index = Some(NativeUnion)

\* C4: the i-th bar revealed for a tracked symbol S is dated with the i-th
\* timestamp t of the union of the native calendars and carries the values of
\* S's own bar at t or, when S has none at t, of S's last own bar before t.
C4_ForwardFillOwnBars ==
    (handler = "ok" /\ AllFilesPresent) =>
        \A s \in Tracked : \A i \in 1..Len(latest_symbol_data[s]) :
            /\ i <= Len(NativeUnion)
            /\ latest_symbol_data[s][i].datetime = NativeUnion[i]
            /\ OwnPrior(s, NativeUnion[i]) # {} =>
                  latest_symbol_data[s][i].close =
                      Bar(s, OwnLast(s, NativeUnion[i])).close

C6_CommissionSchedule ==
    (fill # NoFill /\ ~arg_commission.some) =>
        /\ arg_quantity <= 500 => fill.commission = Max(13000, 13 * arg_quantity)
        /\ arg_quantity > 500 => fill.commission = Max(13000, 8 * arg_quantity)
        /\ arg_quantity = 500 => fill.commission = 13000
        /\ arg_quantity = 1000 => fill.commission = 13000
        /\ arg_quantity = 5000 => fill.commission = 40000
        /\ ret.some => ret.v = fill.commission

\* the event for 5000 shares was built and costs 4.00
C6_Witness ==
    /\ fill # NoFill
    /\ ~arg_commission.some
    /\ arg_quantity = 5000
    /\ fill.commission = 40000

\* C7: a FillEvent built without a commission holds the calculator's result
\* for its quantity, the calculator having run once in the constructor; one
\* built with a commission (0 included) holds that value, the calculator not
\* having run in the constructor; later calculator calls leave the field as is.
C7_CommissionResolvedOnce ==
    fill # NoFill =>
        /\ fill.quantity = arg_quantity
        /\ (~arg_commission.some) =>
              /\ fill.commission = calculate_commission(arg_quantity)
              /\ fill.calc_calls - explicit_calls = 1
        /\ arg_commission.some =>
              /\ fill.commission = arg_commission.v
              /\ fill.calc_calls - explicit_calls = 0

\* a commission of 0 was supplied for a quantity whose computed commission
\* differs, and the calculator was called afterwards
C7_Witness ==
    /\ fill # NoFill
    /\ arg_commission = Some(0)
    /\ fill.commission = 0
    /\ explicit_calls >= 1
    /\ ret = Some(13000)

C9_ConstructionOutcome ==
    (handler # "none" /\ calls = 0) =>
        /\ (handler # "ok") <=> ~AllFilesPresent
        /\ handler = "ok" =>
              /\ continue_backtest
              /\ \A s \in Tracked :
                    /\ latest_symbol_data[s] = <<>>
                    /\ symbol_data[s].rows =
                           reindex(sort(read_csv(fs, s)), comb_index.v)

\* C10: a computed commission is at least 1.30, is exactly 1.30 for every
\* quantity up to 1625 (zero and negative quantities included), and does not
\* decrease from quantity q to q + 1.
C10_FloorAndMonotone ==
    (fill # NoFill /\ ~arg_commission.some) =>
        /\ fill.commission >= 13000
        /\ arg_quantity <= 1625 => fill.commission = 13000
        /\ fill_next # NoFill => fill.commission <= fill_next.commission

\* the events for 500 and 501 shares were both built, at 1.30 each
C10_Witness ==
    /\ fill # NoFill
    /\ fill_next # NoFill
    /\ ~arg_commission.some
    /\ arg_quantity = 500
    /\ fill_next.quantity = 501
    /\ fill.commission = 13000
    /\ fill_next.commission = 13000

====
